---- MODULE Spec2Model ----
(***************************************************************************)
(* Model of quiz.py: the validator (validate_quiz), the session            *)
(* (Quiz.__init__, run_quiz, present_question, show_final_score,           *)
(* show_quiz_report), the combined-quiz builder (create_combined_quiz) and *)
(* the two menu flows that construct sessions (take_individual_quiz,       *)
(* take_combined_quiz).                                                    *)
(*                                                                         *)
(* Python values are modelled as tagged records (JSON values), lists that  *)
(* are shared by reference live in `heap`, and a line typed by the user is *)
(* a sequence of one-character strings that the model strips, lower-cases  *)
(* and parses the way the code does.                                       *)
(***************************************************************************)
EXTENDS Integers, Sequences, FiniteSets, TLC

----------------------------------------------------------------------------
(* Bounds of the model. *)

\* longest question list of a directly constructed session
MaxQuestions == 2

\* most definitions in the loaded quiz_data of the menu flows
MaxQuizzes == 2

----------------------------------------------------------------------------
(* Text typed by the user: str.strip, str.lower, int(). *)

Digits == <<"0", "1", "2", "3", "4", "5", "6", "7", "8", "9">>

IsDigit(c) == \E i \in 1..10 : Digits[i] = c

DigitVal(c) == (CHOOSE i \in 1..10 : Digits[i] = c) - 1

\* str.lower on the letters the input lines use
LowerChar(c) ==
    CASE c = "Q" -> "q"
      [] c = "A" -> "a"
      [] c = "L" -> "l"
      [] c = "Y" -> "y"
      [] c = "N" -> "n"
      [] OTHER -> c

Lower(s) == [i \in 1..Len(s) |-> LowerChar(s[i])]

RECURSIVE LStrip(_)
LStrip(s) == IF s # <<>> /\ Head(s) = " " THEN LStrip(Tail(s)) ELSE s

RECURSIVE RStrip(_)
RStrip(s) ==
    IF s # <<>> /\ s[Len(s)] = " " THEN RStrip(SubSeq(s, 1, Len(s) - 1)) ELSE s

Strip(s) == RStrip(LStrip(s))

RECURSIVE DigitsVal(_)
DigitsVal(s) ==
    IF s = <<>> THEN 0 ELSE 10 * DigitsVal(SubSeq(s, 1, Len(s) - 1)) + DigitVal(s[Len(s)])

AllDigits(s) == s # <<>> /\ \A i \in 1..Len(s) : IsDigit(s[i])

\* int(text): surrounding blanks dropped, an optional sign, then digits;
\* anything else raises ValueError (ok = FALSE).
ParseInt(text) ==
    LET s    == Strip(text)
        sign == s # <<>> /\ Head(s) \in {"+", "-"}
        body == IF sign THEN Tail(s) ELSE s
    IN  IF AllDigits(body)
        THEN [ok |-> TRUE,
              v  |-> IF sign /\ Head(s) = "-" THEN 0 - DigitsVal(body) ELSE DigitsVal(body)]
        ELSE [ok |-> FALSE, v |-> 0]

----------------------------------------------------------------------------
(* JSON values as json.load produces them.  A bool keeps its own tag but   *)
(* carries the integer Python gives it (True == 1, False == 0).            *)

JInt(n)   == [t |-> "int",  v |-> n, s |-> "", items |-> <<>>]
JBool(b)  == [t |-> "bool", v |-> IF b THEN 1 ELSE 0, s |-> "", items |-> <<>>]
JStr(x)   == [t |-> "str",  v |-> 0, s |-> x, items |-> <<>>]
JList(xs) == [t |-> "list", v |-> 0, s |-> "", items |-> xs]
JMap      == [t |-> "dict", v |-> 0, s |-> "", items |-> <<>>]
Missing   == [t |-> "missing", v |-> 0, s |-> "", items |-> <<>>]

\* isinstance(x, int): bool is a subclass of int
IsInstanceInt(x) == x.t \in {"int", "bool"}

\* isinstance(x, bool)
IsInstanceBool(x) == x.t = "bool"

\* isinstance(x, list)
IsInstanceList(x) == x.t = "list"

\* key in mapping
Has(d, key) == d[key].t # "missing"

\* a question mapping; a key that is absent holds Missing
Question(q, a, c, ty) ==
    [t |-> "dict", question |-> q, answer |-> a, choices |-> c, type |-> ty,
     source_quiz |-> Missing]

\* question.get("type", "multiple_choice")
QuestionType(q) == IF Has(q, "type") THEN q.type ELSE JStr("multiple_choice")

\* the per-question part of validate_quiz (body of the for loop)
ValidQuestion(q) ==
    IF q.t # "dict" THEN FALSE
    ELSE IF ~Has(q, "question") \/ ~Has(q, "answer") THEN FALSE
    ELSE IF QuestionType(q) = JStr("true_false")
         THEN IsInstanceBool(q.answer)
    ELSE IF ~Has(q, "choices") THEN FALSE
    ELSE IF ~IsInstanceList(q.choices) \/ Len(q.choices.items) < 2 THEN FALSE
    ELSE IF ~IsInstanceInt(q.answer)
            \/ q.answer.v < 1
            \/ q.answer.v > Len(q.choices.items) THEN FALSE
    ELSE TRUE

\* validate_quiz(quiz_data)
validate_quiz(quiz_data) ==
    IF quiz_data.t # "dict" THEN FALSE
    ELSE IF ~Has(quiz_data, "title") \/ ~Has(quiz_data, "questions") THEN FALSE
    ELSE IF ~IsInstanceList(quiz_data.questions)
            \/ quiz_data.questions.items = <<>> THEN FALSE
    ELSE \A i \in 1..Len(quiz_data.questions.items) :
            ValidQuestion(quiz_data.questions.items[i])

\* a quiz mapping
QuizData(ti, qs) == [t |-> "dict", title |-> ti, questions |-> qs]

----------------------------------------------------------------------------
(* State. *)

VARIABLES
    heap,             \* list objects by address: address -> sequence of questions
    quiz_data,        \* main(): the loaded definitions, [title, questions (address)]
    menu,             \* position of the menu flow
    selected,         \* take_individual_quiz: choice - 1; take_combined_quiz: selected_indices
    randomize,        \* take_individual_quiz, take_combined_quiz: the answer to "randomize?"
    base,             \* Python frames below present_question
    title,            \* Quiz.title
    questions,        \* Quiz.questions: the address of the list it was given
    total_questions,  \* Quiz.total_questions
    correct_answers,  \* Quiz.correct_answers
    user_answers,     \* Quiz.user_answers
    idx,              \* run_quiz: idx of the for loop
    pc,               \* position of run_quiz / present_question
    depth,            \* active present_question frames
    shown,            \* the question rendered last (lines 57-59)
    is_correct,       \* present_question: is_correct of the frame that answered
    result,           \* what run_quiz returned
    printed,          \* what show_final_score and show_quiz_report printed, in order
    candidate,        \* validate_quiz: the value under validation
    verdict,          \* validate_quiz: what it returned
    combine_in,       \* create_combined_quiz: quiz_data_list and randomize
    combine_out,      \* create_combined_quiz: what it returned
    folder,           \* the directory load_quizzes_from_folder is given
    files,            \* load_quizzes_from_folder: files
    file_idx,         \* load_quizzes_from_folder: position of the for loop over files
    quizzes,          \* load_quizzes_from_folder: quizzes
    warnings,         \* load_quizzes_from_folder: the messages it printed, in order
    load_pc           \* position of load_quizzes_from_folder

vars == <<heap, quiz_data, menu, selected, randomize, base, title, questions,
          total_questions, correct_answers, user_answers, idx, pc, depth,
          shown, is_correct, result, printed,
          candidate, verdict, combine_in, combine_out,
          folder, files, file_idx, quizzes, warnings, load_pc>>

sessionVars == <<title, questions, total_questions, correct_answers,
                 user_answers, idx, pc, depth, shown, is_correct, result,
                 printed>>

menuVars == <<quiz_data, menu, selected, randomize, base>>

\* what a step of a running session leaves alone in its caller
callerVars == <<quiz_data, selected, randomize, base>>

loadVars == <<folder, files, file_idx, quizzes, warnings, load_pc>>

pureVars == <<candidate, verdict, combine_in, combine_out, loadVars>>

\* sys.getrecursionlimit() of CPython: the deepest Python stack
RecursionLimit == 1000

\* addresses of list objects: one per loaded definition, one for a combined pool
Addrs == 1..(MaxQuizzes + 1)

None == [kind |-> "None", correct |-> 0, total |-> 0]

NoQuestion == [number |-> 0, text |-> Missing]

\* all orders random.shuffle can leave a list in
Perms(s) ==
    LET n == Len(s)
    IN  { [i \in 1..n |-> s[p[i]]] :
            p \in { f \in [1..n -> 1..n] : \A i, j \in 1..n : f[i] = f[j] => i = j } }

----------------------------------------------------------------------------
(* The questions sessions are run on. *)

QA == Question(JStr("capital?"), JInt(2), JList(<<"Rome", "Paris", "Oslo">>), Missing)
QB == Question(JStr("sky is blue?"), JBool(TRUE), Missing, JStr("true_false"))
QC == Question(JStr("2+2=5?"), JBool(FALSE), Missing, JStr("true_false"))

QuestionPool == {QA, QB, QC}

RECURSIVE SeqsUpTo(_, _)
SeqsUpTo(S, n) ==
    IF n = 0 THEN {<<>>}
    ELSE LET shorter == SeqsUpTo(S, n - 1)
         IN  shorter \cup { Append(s, x) : s \in { r \in shorter : Len(r) = n - 1 }, x \in S }

\* lists of at most n questions of S, no question twice
QuestionLists(S, n) ==
    { s \in SeqsUpTo(S, n) : \A i, j \in 1..Len(s) : s[i] = s[j] => i = j }

\* lines typed at "Enter your answer (number or 'q'): "
AnswerLines ==
    { <<"q">>, <<"Q">>, <<" ", "q", " ">>, <<"1">>, <<"2">>, <<" ", "3">>,
      <<"4">>, <<"0">>, <<"-", "1">>, <<"x">>, <<>>, <<"q", "q">> }

----------------------------------------------------------------------------
(* Quiz: show_final_score, show_quiz_report, the for loop of run_quiz. *)

\* percentage of show_final_score, lines 154-158, as the fraction num / den;
\* the quotient correct_answers / total_questions is a double, and for
\* totals below 2^53 / 100 its product with 100 compares with 90, 70 and 50
\* as the exact fraction does
Percentage(c, t) ==
    IF t > 0 THEN [num |-> c * 100, den |-> t] ELSE [num |-> 0, den |-> 1]

\* percentage >= k
AtLeast(percentage, k) == percentage.num >= k * percentage.den

\* Tier with > where the code has >=
TierStrict(c, t) ==
    LET percentage == Percentage(c, t)
    IN  IF percentage.num > 90 * percentage.den THEN "Outstanding"
        ELSE IF percentage.num > 70 * percentage.den THEN "Good"
        ELSE IF percentage.num > 50 * percentage.den THEN "Not bad"
        ELSE "Review needed"

\* show_final_score: the tier printed for correct c of total t, lines 164-171
Tier(c, t) ==
    LET percentage == Percentage(c, t)
    IN  IF AtLeast(percentage, 90) THEN "Outstanding"
        ELSE IF AtLeast(percentage, 70) THEN "Good"
        ELSE IF AtLeast(percentage, 50) THEN "Not bad"
        ELSE "Review needed"

show_final_score(c, t) ==
    [kind |-> "score", correct |-> c, total |-> t, text |-> Tier(c, t), wrong |-> <<>>]

\* WrongAnswers without its filter
WrongAnswersUnfiltered(ua) == ua

\* [a for a in self.user_answers if not a["correct"]]
RECURSIVE WrongAnswers(_)
WrongAnswers(ua) ==
    IF ua = <<>> THEN <<>>
    ELSE IF ~Head(ua).correct THEN <<Head(ua)>> \o WrongAnswers(Tail(ua))
    ELSE WrongAnswers(Tail(ua))

show_quiz_report(ua) ==
    IF ua = <<>>
    THEN [kind |-> "report", correct |-> 0, total |-> 0,
          text |-> "No questions were answered.", wrong |-> <<>>]
    ELSE IF WrongAnswers(ua) = <<>>
    THEN [kind |-> "report", correct |-> 0, total |-> 0,
          text |-> "Congratulations! You got all questions correct!", wrong |-> <<>>]
    ELSE [kind |-> "report", correct |-> 0, total |-> 0,
          text |-> "Questions you got wrong:", wrong |-> WrongAnswers(ua)]

\* run_quiz, lines 33-44: the for loop takes item k of the list qs, with
\* correct_answers = c and user_answers = ua; when the list is exhausted
\* the score and the report are printed and (c, total) is returned.
Loop(k, qs, c, t, ua) ==
    IF k < Len(qs)
    THEN /\ idx' = k
         /\ pc' = "prompt"
         /\ depth' = 1
         /\ shown' = [number |-> k + 1, text |-> qs[k + 1].question]
         /\ printed' = <<>>
         /\ result' = Missing
    ELSE /\ idx' = k
         /\ pc' = "completed"
         /\ depth' = 0
         /\ shown' = IF k = 0 THEN NoQuestion ELSE shown
         /\ printed' = <<show_final_score(c, t), show_quiz_report(ua)>>
         /\ result' = [kind |-> "score", correct |-> c, total |-> t]

\* where the caller of run_quiz goes on when run_quiz ends with outcome o:
\* take_individual_quiz returns on None (lines 409-410) and asks for
\* another quiz otherwise (413), take_combined_quiz waits for Enter (487),
\* and an exception leaves main
AfterQuiz(m, o) ==
    IF o = "crashed" /\ m \in {"quiz_one", "quiz_combined"} THEN "crashed"
    ELSE IF m = "quiz_one" THEN (IF o = "aborted" THEN "returned" ELSE "another")
    ELSE IF m = "quiz_combined" THEN "combined_done"
    ELSE m

\* the question present_question is asking
Current == heap[questions][idx + 1]

\* the number of options of a question: 2 for true/false, len(choices) otherwise
OptionCount(q) ==
    IF QuestionType(q) = JStr("true_false") THEN 2 ELSE Len(q.choices.items)

\* UserInput without the lower-casing
UserInputCaseSensitive(line) == Strip(line)

\* input(...).strip().lower() of every line that may be typed
UserInputs == [line \in AnswerLines |-> Lower(Strip(line))]

\* user_input = input(...).strip().lower()
UserInput(line) == UserInputs[line]

\* the line is a number the question accepts
ValidAnswer(q, line) ==
    /\ UserInput(line) # <<"q">>
    /\ ParseInt(UserInput(line)).ok
    /\ ParseInt(UserInput(line)).v >= 1
    /\ ParseInt(UserInput(line)).v <= OptionCount(q)

\* AnswerData comparing the 1-based choice with the 0-based answer index
AnswerDataOffByOne(q, u) ==
    IF QuestionType(q) = JStr("true_false")
    THEN [question       |-> q.question,
          user_answer    |-> IF u = 1 THEN "True" ELSE "False",
          correct_answer |-> IF q.answer.v # 0 THEN "True" ELSE "False",
          correct        |-> (IF u = 1 THEN 1 ELSE 0) = q.answer.v]
    ELSE [question       |-> q.question,
          user_answer    |-> q.choices.items[u],
          correct_answer |-> q.choices.items[(q.answer.v - 1) + 1],
          correct        |-> u = (q.answer.v - 1)]

\* lines 82-93 and 125-131: the record of a valid answer u to question q
AnswerData(q, u) ==
    IF QuestionType(q) = JStr("true_false")
    THEN [question       |-> q.question,
          user_answer    |-> IF u = 1 THEN "True" ELSE "False",
          correct_answer |-> IF q.answer.v # 0 THEN "True" ELSE "False",
          correct        |-> (IF u = 1 THEN 1 ELSE 0) = q.answer.v]
    ELSE [question       |-> q.question,
          user_answer    |-> q.choices.items[u],
          correct_answer |-> q.choices.items[(q.answer.v - 1) + 1],
          correct        |-> (u - 1) = (q.answer.v - 1)]

----------------------------------------------------------------------------
(* Quiz.__init__ and the steps of run_quiz; each step is one line read.    *)

\* Quiz(ti, addr, randomize) on the list at addr, whose content is then qs
\* (lines 17-25: self.questions is the caller's list object itself)
QuizInit(ti, addr, qs) ==
    /\ title' = ti
    /\ questions' = addr
    /\ total_questions' = Len(qs)
    /\ correct_answers' = 0
    /\ user_answers' = <<>>

\* run_quiz is called: the loop presents the first question, or with no
\* questions goes straight to the score and the report
RunQuiz ==
    /\ pc = "constructed"
    /\ Loop(0, heap[questions], correct_answers, total_questions, user_answers)
    /\ UNCHANGED <<heap, title, questions, total_questions, correct_answers,
                   user_answers, is_correct>>
    /\ UNCHANGED menuVars
    /\ UNCHANGED pureVars

\* Quit leaving the for loop only, so that lines 42-43 still run
QuitByBreak(line) ==
    /\ pc = "prompt"
    /\ UserInput(line) = <<"q">>
    /\ pc' = "aborted"
    /\ result' = None
    /\ depth' = 0
    /\ printed' = <<show_final_score(correct_answers, total_questions),
                    show_quiz_report(user_answers)>>
    /\ menu' = AfterQuiz(menu, "aborted")
    /\ UNCHANGED <<heap, title, questions, total_questions, correct_answers,
                   user_answers, idx, shown, is_correct>>
    /\ UNCHANGED callerVars
    /\ UNCHANGED pureVars

\* lines 73-74, 115-116 and 35-38: 'q' leaves present_question and run_quiz
Quit(line) ==
    /\ pc = "prompt"
    /\ UserInput(line) = <<"q">>
    /\ pc' = "aborted"
    /\ result' = None
    /\ depth' = 0
    /\ menu' = AfterQuiz(menu, "aborted")
    /\ UNCHANGED <<heap, title, questions, total_questions, correct_answers,
                   user_answers, idx, shown, is_correct, printed>>
    /\ UNCHANGED callerVars
    /\ UNCHANGED pureVars

\* the line is neither 'q' nor a number the question accepts
Rejected(line) ==
    /\ UserInput(line) # <<"q">>
    /\ \/ ~ParseInt(UserInput(line)).ok
       \/ ParseInt(UserInput(line)).v < 1
       \/ ParseInt(UserInput(line)).v > OptionCount(Current)

\* the call of line 80, 104, 123 or 143 fits on the Python stack
CanRecurse == base + depth + 1 < RecursionLimit

\* Retry that stores a record of the rejected response before asking again
RetryRecording(line) ==
    /\ pc = "prompt"
    /\ Rejected(line)
    /\ CanRecurse
    /\ depth' = depth + 1
    /\ shown' = [number |-> idx + 1, text |-> Current.question]
    /\ user_answers' = Append(user_answers,
                              [question |-> Current.question, user_answer |-> "",
                               correct_answer |-> "", correct |-> FALSE])
    /\ UNCHANGED <<heap, title, questions, total_questions, correct_answers,
                   idx, pc, is_correct, result, printed>>
    /\ UNCHANGED menuVars
    /\ UNCHANGED pureVars

\* lines 76-80, 102-104, 118-123, 141-143: present_question calls itself
\* with the same question, which is rendered again
Retry(line) ==
    /\ pc = "prompt"
    /\ Rejected(line)
    /\ CanRecurse
    /\ depth' = depth + 1
    /\ shown' = [number |-> idx + 1, text |-> Current.question]
    /\ UNCHANGED <<heap, title, questions, total_questions, correct_answers,
                   user_answers, idx, pc, is_correct, result, printed>>
    /\ UNCHANGED menuVars
    /\ UNCHANGED pureVars

\* the same call when the stack is full: RecursionError, which no except
\* clause of the program handles, leaves present_question and run_quiz
Overflow(line) ==
    /\ pc = "prompt"
    /\ Rejected(line)
    /\ ~CanRecurse
    /\ pc' = "crashed"
    /\ depth' = 0
    /\ menu' = AfterQuiz(menu, "crashed")
    /\ UNCHANGED <<heap, title, questions, total_questions, correct_answers,
                   user_answers, idx, shown, is_correct, result, printed>>
    /\ UNCHANGED callerVars
    /\ UNCHANGED pureVars

\* Answer returning True whatever was answered
AnswerReturningTrue(line) ==
    /\ pc = "prompt"
    /\ ValidAnswer(Current, line)
    /\ LET data == AnswerData(Current, ParseInt(UserInput(line)).v)
       IN  /\ user_answers' = Append(user_answers, data)
           /\ is_correct' = TRUE
    /\ pc' = "pause"
    /\ UNCHANGED <<heap, title, questions, total_questions, correct_answers,
                   idx, depth, shown, result, printed>>
    /\ UNCHANGED menuVars
    /\ UNCHANGED pureVars

\* lines 82-101, 125-140, 146-148: a number in range is judged, recorded
\* and "Press Enter to continue..." waits
Answer(line) ==
    /\ pc = "prompt"
    /\ ValidAnswer(Current, line)
    /\ LET data == AnswerData(Current, ParseInt(UserInput(line)).v)
       IN  /\ user_answers' = Append(user_answers, data)
           /\ is_correct' = data.correct
    /\ pc' = "pause"
    /\ UNCHANGED <<heap, title, questions, total_questions, correct_answers,
                   idx, depth, shown, result, printed>>
    /\ UNCHANGED menuVars
    /\ UNCHANGED pureVars

\* PressEnter with run_quiz counting every answer, correct or not
PressEnterCountingAll ==
    /\ pc = "pause"
    /\ LET c == correct_answers + 1
       IN  /\ correct_answers' = c
           /\ Loop(idx + 1, heap[questions], c, total_questions, user_answers)
    /\ menu' = IF pc' = "completed" THEN AfterQuiz(menu, "completed") ELSE menu
    /\ UNCHANGED <<heap, title, questions, total_questions, user_answers, is_correct>>
    /\ UNCHANGED callerVars
    /\ UNCHANGED pureVars

\* lines 148-150 and 39-40, then the loop: every frame returns is_correct,
\* run_quiz counts it and takes the next question or finishes
PressEnter ==
    /\ pc = "pause"
    /\ LET c == IF is_correct THEN correct_answers + 1 ELSE correct_answers
       IN  /\ correct_answers' = c
           /\ Loop(idx + 1, heap[questions], c, total_questions, user_answers)
    /\ menu' = IF pc' = "completed" THEN AfterQuiz(menu, "completed") ELSE menu
    /\ UNCHANGED <<heap, title, questions, total_questions, user_answers, is_correct>>
    /\ UNCHANGED callerVars
    /\ UNCHANGED pureVars

----------------------------------------------------------------------------
(* Spec: one session constructed directly on a list of validated           *)
(* questions (or on the empty list) and run once.                          *)

\* frames below present_question when run_quiz is called from module level
DirectFrames == 2

\* no directory is being loaded
LoadIdle ==
    /\ folder = [exists |-> TRUE, creatable |-> TRUE, listable |-> TRUE, entries |-> <<>>]
    /\ files = <<>>
    /\ file_idx = 0
    /\ quizzes = <<>>
    /\ warnings = <<>>
    /\ load_pc = "none"

PureIdle ==
    /\ LoadIdle
    /\ candidate = Missing
    /\ verdict = FALSE
    /\ combine_in = [list |-> <<>>, randomize |-> FALSE]
    /\ combine_out = Missing

Init ==
    /\ \E qs \in QuestionLists(QuestionPool, MaxQuestions) : \E shuffle \in BOOLEAN :
         \E order \in (IF shuffle THEN Perms(qs) ELSE {qs}) :
            /\ heap = [a \in Addrs |-> IF a = 1 THEN order ELSE <<>>]
            /\ total_questions = Len(order)
    /\ title = "T"
    /\ questions = 1
    /\ correct_answers = 0
    /\ user_answers = <<>>
    /\ idx = 0
    /\ pc = "constructed"
    /\ depth = 0
    /\ shown = NoQuestion
    /\ is_correct = FALSE
    /\ result = Missing
    /\ printed = <<>>
    /\ quiz_data = <<>>
    /\ menu = "none"
    /\ selected = <<>>
    /\ randomize = FALSE
    /\ base = DirectFrames
    /\ PureIdle

Next ==
    \/ RunQuiz
    \/ \E line \in AnswerLines : Quit(line)
    \/ \E line \in AnswerLines : Retry(line)
    \/ \E line \in AnswerLines : Overflow(line)
    \/ \E line \in AnswerLines : Answer(line)
    \/ PressEnter

Spec == Init /\ [][Next]_vars

----------------------------------------------------------------------------
(* The loaded definitions and create_combined_quiz. *)

\* main(), lines 342-350: what load_quizzes_from_folder returned, sorted by
\* title; definition i keeps its questions in the list at address i
LoadedTitles == <<"A", "B", "C", "D">>

LoadedQuestions == << <<QB, QC>>, <<QA>>, <<QC>>, <<QB, QA>> >>

LoadedQuiz(i) == [title |-> LoadedTitles[i], questions |-> i]

\* the address of the list create_combined_quiz builds
CombinedAddr == MaxQuizzes + 1

\* the heap right after loading n definitions
LoadedHeap(n) == [a \in Addrs |-> IF a <= n THEN LoadedQuestions[a] ELSE <<>>]

\* ", ".join(titles)
RECURSIVE Join(_)
Join(titles) ==
    IF titles = <<>> THEN ""
    ELSE IF Len(titles) = 1 THEN Head(titles)
    ELSE Head(titles) \o ", " \o Join(Tail(titles))

\* lines 320-321
CombinedTitle(list) ==
    "Combined Quiz: " \o Join([i \in 1..Len(list) |-> list[i].title])

\* Tagged that tags every question with the title of the first source
TaggedFirstTitle(list, h) ==
    LET RECURSIVE go(_)
        go(k) ==
            IF k > Len(list) THEN <<>>
            ELSE [i \in 1..Len(h[list[k].questions]) |->
                     [h[list[k].questions][i] EXCEPT !.source_quiz = JStr(list[1].title)]]
                 \o go(k + 1)
    IN  go(1)

\* lines 324-330: copies of the questions of every quiz of the list, each
\* copy with source_quiz set to the title of its quiz
Tagged(list, h) ==
    LET RECURSIVE go(_)
        go(k) ==
            IF k > Len(list) THEN <<>>
            ELSE [i \in 1..Len(h[list[k].questions]) |->
                     [h[list[k].questions][i] EXCEPT !.source_quiz = JStr(list[k].title)]]
                 \o go(k + 1)
    IN  go(1)

\* lines 332-334: the orders the pool may be returned in
PoolOrders(list, h, shuffle) ==
    IF shuffle THEN Perms(Tagged(list, h)) ELSE {Tagged(list, h)}

\* create_combined_quiz setting source_quiz on the questions of the
\* definitions themselves (no question.copy())
create_combined_quiz_no_copy(list, shuffle) ==
    /\ combine_in' = [list |-> list, randomize |-> shuffle]
    /\ IF list = <<>>
       THEN /\ combine_out' = None
            /\ heap' = heap
       ELSE /\ combine_out' = [title |-> CombinedTitle(list), questions |-> CombinedAddr]
            /\ \E order \in PoolOrders(list, heap, shuffle) :
                 heap' = [a \in Addrs |->
                            IF a = CombinedAddr THEN order
                            ELSE IF \E k \in 1..Len(list) : list[k].questions = a
                            THEN LET k == CHOOSE j \in 1..Len(list) : list[j].questions = a
                                 IN  [i \in 1..Len(heap[a]) |->
                                        [heap[a][i] EXCEPT !.source_quiz = JStr(list[k].title)]]
                            ELSE heap[a]]

\* create_combined_quiz(list, randomize) called with the heap h: the
\* result is None for an empty list, else a mapping whose questions are a
\* new list, stored at CombinedAddr
create_combined_quiz(list, shuffle) ==
    /\ combine_in' = [list |-> list, randomize |-> shuffle]
    /\ IF list = <<>>
       THEN /\ combine_out' = None
            /\ heap' = heap
       ELSE /\ combine_out' = [title |-> CombinedTitle(list), questions |-> CombinedAddr]
            /\ \E order \in PoolOrders(list, heap, shuffle) :
                 heap' = [heap EXCEPT ![CombinedAddr] = order]

----------------------------------------------------------------------------
(* SpecCombine: create_combined_quiz applied to lists of loaded            *)
(* definitions.                                                            *)

SessionIdle ==
    /\ title = ""
    /\ questions = 0
    /\ total_questions = 0
    /\ correct_answers = 0
    /\ user_answers = <<>>
    /\ idx = 0
    /\ pc = "none"
    /\ depth = 0
    /\ shown = NoQuestion
    /\ is_correct = FALSE
    /\ result = Missing
    /\ printed = <<>>

InitCombine ==
    /\ \E n \in 1..MaxQuizzes :
         /\ quiz_data = [i \in 1..n |-> LoadedQuiz(i)]
         /\ heap \in { LoadedHeap(n) } \cup
                     { [LoadedHeap(n) EXCEPT ![1] = p] : p \in Perms(LoadedQuestions[1]) }
         /\ \E picks \in SeqsUpTo(1..n, MaxQuizzes), shuffle \in BOOLEAN :
              combine_in = [list |-> [k \in 1..Len(picks) |-> quiz_data[picks[k]]],
                            randomize |-> shuffle]
    /\ combine_out = Missing
    /\ menu = "create"
    /\ selected = <<>>
    /\ randomize = FALSE
    /\ base = 0
    /\ SessionIdle
    /\ LoadIdle
    /\ candidate = Missing
    /\ verdict = FALSE

\* the call create_combined_quiz(quiz_data_list, randomize)
Combine ==
    /\ menu = "create"
    /\ create_combined_quiz(combine_in.list, combine_in.randomize)
    /\ menu' = "created"
    /\ UNCHANGED <<quiz_data, selected, randomize, base, candidate, verdict>>
    /\ UNCHANGED loadVars
    /\ UNCHANGED sessionVars

NextCombine == Combine

SpecCombine == InitCombine /\ [][NextCombine]_vars

----------------------------------------------------------------------------
(* SpecValidate: validate_quiz applied to parsed JSON documents.           *)

\* most elements of a candidate's questions list
MaxElements == 2

\* values a field may hold besides being absent
TitleValues == {Missing, JStr("T"), JInt(1), JBool(TRUE), JList(<<>>), JMap}

QuestionTextValues == {Missing, JStr("q"), JInt(1), JBool(TRUE), JList(<<>>), JMap}

AnswerValues ==
    {Missing, JInt(0), JInt(1), JInt(2), JInt(3), JBool(TRUE), JBool(FALSE),
     JStr("1"), JList(<<>>), JMap}

ChoicesValues ==
    {Missing, JInt(2), JBool(TRUE), JStr("ab"), JMap, JList(<<>>), JList(<<"a">>),
     JList(<<"a", "b">>), JList(<<"a", "b", "c">>)}

TypeValues == {Missing, JStr("true_false"), JStr("multiple_choice"), JStr("other")}

\* elements of a questions list: mappings over the values above, and
\* values that are no mapping
Elements ==
    { Question(q, a, c, ty) : q \in QuestionTextValues, a \in AnswerValues,
                              c \in ChoicesValues, ty \in TypeValues }
      \cup {JInt(1), JStr("q"), JList(<<>>)}

\* elements a longer list is built from
FewElements ==
    { QA, QB,
      Question(JStr("q"), JInt(1), JList(<<"a", "b">>), JStr("multiple_choice")),
      Question(JStr("q"), JBool(TRUE), JList(<<"a", "b">>), Missing),
      Question(JStr("q"), JInt(1), Missing, JStr("true_false")),
      Question(JStr("q"), JInt(3), JList(<<"a", "b">>), Missing),
      Question(Missing, JInt(1), JList(<<"a", "b">>), Missing),
      JStr("q") }

ElementLists ==
    { <<e>> : e \in Elements }
      \cup { s \in SeqsUpTo(FewElements, MaxElements) : Len(s) # 1 }

\* the documents json.load may hand to validate_quiz
Candidates ==
    { QuizData(JStr("T"), JList(es)) : es \in ElementLists }
      \cup { QuizData(ti, qs) : ti \in TitleValues,
                                qs \in {Missing, JInt(1), JBool(TRUE), JStr("q"), JMap,
                                        JList(<<>>), JList(<<QA>>), JList(<<JInt(1)>>)} }
      \cup {JInt(1), JBool(TRUE), JStr("T"), JList(<<>>)}

InitValidate ==
    /\ candidate \in Candidates
    /\ verdict = FALSE
    /\ menu = "validate"
    /\ combine_in = [list |-> <<>>, randomize |-> FALSE]
    /\ combine_out = Missing
    /\ heap = [a \in Addrs |-> <<>>]
    /\ quiz_data = <<>>
    /\ selected = <<>>
    /\ randomize = FALSE
    /\ base = 0
    /\ SessionIdle
    /\ LoadIdle

\* the call validate_quiz(quiz_data) of line 232
Validate ==
    /\ menu = "validate"
    /\ verdict' = validate_quiz(candidate)
    /\ menu' = "validated"
    /\ UNCHANGED <<heap, quiz_data, selected, randomize, base, candidate, combine_in, combine_out>>
    /\ UNCHANGED loadVars
    /\ UNCHANGED sessionVars

NextValidate == Validate

SpecValidate == InitValidate /\ [][NextValidate]_vars

----------------------------------------------------------------------------
(* SpecMenu: main(), take_individual_quiz and take_combined_quiz over the  *)
(* loaded definitions; every step is one line read from the user.          *)

\* frames below present_question: module, main, take_*_quiz, run_quiz
MenuFrames == 4

\* lines typed at the numeric menus
MenuLines == { <<"1">>, <<"2">>, <<"3">>, <<"4">>, <<"0">>, <<"x">> }

\* lines typed at the yes/no prompts
YesNoLines == { <<"y">>, <<"Y", "e", "s">>, <<"n">>, <<" ", "n", "o">>, <<"x">> }

\* lines typed at "Enter quiz numbers (e.g., 1,3,4) or 'all'"
SelectionLines ==
    { <<"a", "l", "l">>, <<"A", "L", "L">>, <<"1">>, <<"1", ",", "2">>,
      <<"3">>, <<"0">>, <<"x">>, <<"1", ",">>, <<>> }

\* get_numeric_input(prompt, lo, hi) on one line: the value, or 0 when the
\* loop asks again (lines 490-501)
NumericInput(line, lo, hi) ==
    IF ParseInt(line).ok /\ lo <= ParseInt(line).v /\ ParseInt(line).v <= hi
    THEN ParseInt(line).v
    ELSE 0

\* get_yes_no_input on one line (lines 504-513)
YesNoInput(line) ==
    LET response == Lower(Strip(line))
    IN  IF response = <<"y">> \/ response = <<"y", "e", "s">> THEN "yes"
        ELSE IF response = <<"n">> \/ response = <<"n", "o">> THEN "no"
        ELSE "again"

\* str.split(",")
RECURSIVE Split(_)
Split(s) ==
    IF \A i \in 1..Len(s) : s[i] # ","
    THEN <<s>>
    ELSE LET at == CHOOSE i \in 1..Len(s) :
                     s[i] = "," /\ \A j \in 1..(i - 1) : s[j] # ","
         IN  <<SubSeq(s, 1, at - 1)>> \o Split(SubSeq(s, at + 1, Len(s)))

\* lines 441-468 on one line: the selected_indices it accepts, or
\* "again" when the while loop asks again
Selection(line, n) ==
    LET selection  == Strip(line)
        fields     == Split(selection)
        selections == [i \in 1..Len(fields) |-> ParseInt(fields[i])]
    IN  IF Lower(selection) = <<"a", "l", "l">>
        THEN [accepted |-> TRUE, indices |-> [i \in 1..n |-> i - 1]]
        ELSE IF \E i \in 1..Len(fields) : ~selections[i].ok
        THEN [accepted |-> FALSE, indices |-> <<>>]
        ELSE IF ~(\A i \in 1..Len(fields) : 1 <= selections[i].v /\ selections[i].v <= n)
        THEN [accepted |-> FALSE, indices |-> <<>>]
        ELSE IF Len(fields) < 1
        THEN [accepted |-> FALSE, indices |-> <<>>]
        ELSE [accepted |-> TRUE, indices |-> [i \in 1..Len(fields) |-> selections[i].v - 1]]

\* Quiz(ti, the list at addr) followed by run_quiz up to its first prompt
StartQuiz(ti, addr) ==
    /\ QuizInit(ti, addr, heap'[addr])
    /\ Loop(0, heap'[addr], 0, Len(heap'[addr]), <<>>)
    /\ is_correct' = FALSE

\* take_individual_quiz or take_combined_quiz returns to main: its locals
\* and the Quiz it built are gone
ReturnToMain ==
    /\ menu' = "main"
    /\ selected' = <<>>
    /\ randomize' = FALSE
    /\ heap' = [heap EXCEPT ![CombinedAddr] = <<>>]
    /\ combine_in' = [list |-> <<>>, randomize |-> FALSE]
    /\ combine_out' = Missing
    /\ title' = ""
    /\ questions' = 0
    /\ total_questions' = 0
    /\ correct_answers' = 0
    /\ user_answers' = <<>>
    /\ idx' = 0
    /\ pc' = "none"
    /\ depth' = 0
    /\ shown' = NoQuestion
    /\ is_correct' = FALSE
    /\ result' = Missing
    /\ printed' = <<>>
    /\ UNCHANGED <<quiz_data, base, candidate, verdict>>
    /\ UNCHANGED loadVars

InitMenu ==
    /\ \E n \in 1..MaxQuizzes :
         /\ quiz_data = [i \in 1..n |-> LoadedQuiz(i)]
         /\ heap = LoadedHeap(n)
    /\ menu = "main"
    /\ selected = <<>>
    /\ randomize = FALSE
    /\ base = MenuFrames
    /\ SessionIdle
    /\ PureIdle

\* main(), lines 360-370, and the first lines of the flow chosen
MainMenu(line) ==
    /\ menu = "main"
    /\ LET choice == NumericInput(line, 1, 3)
       IN  menu' = CASE choice = 3 -> "exit"
                     [] choice = 1 -> "pick"
                     [] choice = 2 -> (IF Len(quiz_data) < 2 THEN "need2" ELSE "select")
                     [] OTHER -> "main"
    /\ selected' = <<>>
    /\ UNCHANGED <<heap, quiz_data, randomize, base>>
    /\ UNCHANGED sessionVars
    /\ UNCHANGED pureVars

\* take_combined_quiz, lines 421-425: Enter after "You need at least 2 quizzes"
NeedTwo ==
    /\ menu = "need2"
    /\ menu' = "main"
    /\ UNCHANGED <<heap, quiz_data, selected, randomize, base>>
    /\ UNCHANGED sessionVars
    /\ UNCHANGED pureVars

\* take_individual_quiz, lines 389-394
Pick(line) ==
    /\ menu = "pick"
    /\ LET choice == NumericInput(line, 1, Len(quiz_data) + 1)
       IN  IF choice = Len(quiz_data) + 1
           THEN ReturnToMain
           ELSE /\ IF choice = 0
                   THEN UNCHANGED <<menu, selected>>
                   ELSE menu' = "randomize_one" /\ selected' = <<choice - 1>>
                /\ UNCHANGED <<heap, quiz_data, randomize, base>>
                /\ UNCHANGED sessionVars
                /\ UNCHANGED pureVars

\* take_individual_quiz, lines 409-410: run_quiz returned None
Exited ==
    /\ menu = "returned"
    /\ ReturnToMain

\* take_individual_quiz, lines 399-407: the answer to "randomize?", then
\* Quiz(title, questions, randomize) on the definition's own list, which
\* random.shuffle reorders in place, and run_quiz
RandomizeOne(line) ==
    /\ menu = "randomize_one"
    /\ YesNoInput(line) # "again"
    /\ LET selected_quiz == quiz_data[selected[1] + 1]
       IN  /\ randomize' = (YesNoInput(line) = "yes")
           /\ \E order \in (IF randomize' THEN Perms(heap[selected_quiz.questions])
                                         ELSE {heap[selected_quiz.questions]}) :
                 heap' = [heap EXCEPT ![selected_quiz.questions] = order]
           /\ StartQuiz(selected_quiz.title, selected_quiz.questions)
    /\ menu' = "quiz_one"
    /\ UNCHANGED <<quiz_data, selected, base>>
    /\ UNCHANGED pureVars

\* take_individual_quiz, lines 413-416
Another(line) ==
    /\ menu = "another"
    /\ YesNoInput(line) # "again"
    /\ IF YesNoInput(line) = "no"
       THEN ReturnToMain
       ELSE /\ menu' = "pick"
            /\ UNCHANGED <<heap, quiz_data, selected, randomize, base>>
            /\ UNCHANGED sessionVars
            /\ UNCHANGED pureVars

\* take_combined_quiz, lines 439-468
Select(line) ==
    /\ menu = "select"
    /\ Selection(line, Len(quiz_data)).accepted
    /\ selected' = Selection(line, Len(quiz_data)).indices
    /\ menu' = "randomize_combined"
    /\ UNCHANGED <<heap, quiz_data, randomize, base>>
    /\ UNCHANGED sessionVars
    /\ UNCHANGED pureVars

\* take_combined_quiz, lines 471-483: the answer to "randomize?", then
\* create_combined_quiz on the selected definitions, Quiz on its result
\* and run_quiz
RandomizeCombined(line) ==
    /\ menu = "randomize_combined"
    /\ YesNoInput(line) # "again"
    /\ randomize' = (YesNoInput(line) = "yes")
    /\ create_combined_quiz([k \in 1..Len(selected) |-> quiz_data[selected[k] + 1]],
                            randomize')
    /\ StartQuiz(combine_out'.title, combine_out'.questions)
    /\ menu' = "quiz_combined"
    /\ UNCHANGED <<quiz_data, selected, base, candidate, verdict>>
    /\ UNCHANGED loadVars

\* take_combined_quiz, line 487: Enter after the combined quiz
CombinedDone ==
    /\ menu = "combined_done"
    /\ ReturnToMain

NextMenu ==
    \/ \E line \in MenuLines : MainMenu(line)
    \/ NeedTwo
    \/ \E line \in MenuLines : Pick(line)
    \/ Exited
    \/ \E line \in YesNoLines : RandomizeOne(line)
    \/ \E line \in YesNoLines : Another(line)
    \/ \E line \in SelectionLines : Select(line)
    \/ \E line \in YesNoLines : RandomizeCombined(line)
    \/ CombinedDone
    \/ \E line \in AnswerLines : Quit(line)
    \/ \E line \in AnswerLines : Retry(line)
    \/ \E line \in AnswerLines : Overflow(line)
    \/ \E line \in AnswerLines : Answer(line)
    \/ PressEnter

SpecMenu == InitMenu /\ [][NextMenu]_vars

----------------------------------------------------------------------------
(* Properties of a session (Spec). *)

\* present_question handles one line read at the answer prompt
ReadLine(line) == Quit(line) \/ Retry(line) \/ Overflow(line) \/ Answer(line)

\* the line is the exit sentinel: 'q' in either case, blanks around it ignored
ExitSentinel(line) == Strip(line) \in {<<"q">>, <<"Q">>}

\* the line is an integer in 1..optionCount of question q
InRange(q, line) ==
    /\ ParseInt(line).ok
    /\ 1 <= ParseInt(line).v
    /\ ParseInt(line).v <= (IF q.type = JStr("true_false") THEN 2 ELSE Len(q.choices.items))

\* the line is non-numeric or an integer outside 1..optionCount
InvalidResponse(q, line) == ~ExitSentinel(line) /\ ~InRange(q, line)

\* the first k records are those of questions 1..k of the session, in order
RecordsOfFirst(k) ==
    /\ Len(user_answers) = k
    /\ \A i \in 1..k : user_answers[i].question = heap[questions][i].question

\* C1: when the exit sentinel is the response to question K (= idx + 1),
\* run_quiz returns None, the log is left as it was, and it holds exactly
\* the records of questions 1..K-1 in order (none for K or later).
C1_ExitAborts ==
    [][\A line \in AnswerLines :
         (pc = "prompt" /\ ExitSentinel(line) /\ ReadLine(line))
            => /\ pc' = "aborted"
               /\ result' = None
               /\ user_answers' = user_answers
               /\ printed' = <<>>
               /\ Len(user_answers') = idx
               /\ \A i \in 1..idx :
                    user_answers'[i].question = heap[questions][i].question]_vars

\* the sentinel was typed on the second question, after the first was answered
C1_Witness ==
    pc = "aborted" /\ idx = 1 /\ Len(user_answers) = 1 /\ result = None

\* C2: a non-numeric or out-of-range response leaves the question index,
\* correct_answers and the log unchanged and the same question is presented
\* again.
C2_RetryRepresents ==
    [][\A line \in AnswerLines :
         (pc = "prompt" /\ InvalidResponse(Current, line) /\ ReadLine(line))
            => /\ idx' = idx
               /\ correct_answers' = correct_answers
               /\ user_answers' = user_answers
               /\ pc' = "prompt"
               /\ shown' = [number |-> idx + 1, text |-> Current.question]]_vars

\* C3: one record per answered question, in presentation order, however
\* many responses were rejected before: while question idx + 1 is asked the
\* log holds the records of questions 1..idx, once it is answered those of
\* 1..idx + 1, and after a completed run of N questions exactly N records,
\* record i carrying the text of question i.
C3_OneRecordPerAnswer ==
    /\ pc \in {"prompt", "aborted", "crashed"} => RecordsOfFirst(idx)
    /\ pc = "pause" => RecordsOfFirst(idx + 1)
    /\ pc = "completed" =>
         /\ idx = Len(heap[questions])
         /\ RecordsOfFirst(Len(heap[questions]))

\* the second question was answered after two rejected responses
C3_Witness ==
    pc = "pause" /\ idx = 1 /\ depth = 3 /\ Len(user_answers) = 2

\* the option of question q that is its correct answer
CorrectOption(q) ==
    IF q.type = JStr("true_false")
    THEN (IF q.answer = JBool(TRUE) THEN 1 ELSE 2)
    ELSE q.answer.v

\* what the log shows for option u of question q
OptionText(q, u) ==
    IF q.type = JStr("true_false")
    THEN (IF u = 1 THEN "True" ELSE "False")
    ELSE q.choices.items[u]

\* every question of the session was answered with its correct option
AllAnsweredCorrectly ==
    /\ Len(user_answers) = Len(heap[questions])
    /\ \A i \in 1..Len(user_answers) :
         user_answers[i].user_answer
            = OptionText(heap[questions][i], CorrectOption(heap[questions][i]))

\* C6: a run in which every question got its correct option completes with
\* correct_answers = N and total_questions = N and a report without entries.
C6_AllCorrectScore ==
    (pc = "completed" /\ AllAnsweredCorrectly) =>
        /\ correct_answers = Len(heap[questions])
        /\ total_questions = Len(heap[questions])
        /\ result = [kind |-> "score", correct |-> Len(heap[questions]),
                     total |-> Len(heap[questions])]
        /\ printed[2].kind = "report"
        /\ printed[2].wrong = <<>>

\* two questions, both answered correctly
C6_Witness ==
    pc = "completed" /\ AllAnsweredCorrectly /\ Len(heap[questions]) = 2

\* the records with wasCorrect = false, in the order of the log
FailedRecords(ua) == SelectSeq(ua, LAMBDA a : ~a.correct)

AllCorrectMessage == "Congratulations! You got all questions correct!"

\* C9 as stated: on completion the report lists exactly the failed
\* records in order, and whenever there are none (zero questions included)
\* the all-correct message is printed.
C9_ReportAsStated ==
    pc = "completed" =>
        /\ printed[2].kind = "report"
        /\ printed[2].wrong = FailedRecords(user_answers)
        /\ FailedRecords(user_answers) = <<>> => printed[2].text = AllCorrectMessage

\* C9 amended: on completion the report lists exactly the failed records
\* in order; when there are none and at least one question was answered the
\* all-correct message is printed, and a session of zero questions prints
\* "No questions were answered." instead.
C9_Report ==
    pc = "completed" =>
        /\ printed[2].kind = "report"
        /\ printed[2].wrong = FailedRecords(user_answers)
        /\ (FailedRecords(user_answers) = <<>> /\ user_answers # <<>>)
              => printed[2].text = AllCorrectMessage
        /\ user_answers = <<>> => printed[2].text = "No questions were answered."
        /\ FailedRecords(user_answers) # <<>> => printed[2].text # AllCorrectMessage

\* a completed run with two failed answers
C9_Witness ==
    pc = "completed" /\ Len(FailedRecords(user_answers)) = 2

\* C10: a rejected response never fails or ends the session, however many
\* came before it: from the answer prompt every line leads to the prompt
\* of the same question, to a recorded answer or to the requested exit.
C10_NoAttemptLimit ==
    [][pc = "prompt" =>
         /\ pc' \in {"prompt", "pause", "aborted"}
         /\ idx' = idx
         /\ pc' = "pause" => Len(user_answers') = Len(user_answers) + 1
         /\ pc' = "aborted" => result' = None]_vars

----------------------------------------------------------------------------
(* Properties of create_combined_quiz (SpecCombine). *)

\* the source titles in input order, separated by ", "
ExpectedTitle(list) ==
    LET RECURSIVE upTo(_)
        upTo(k) ==
            IF k = 0 THEN ""
            ELSE IF k = 1 THEN list[1].title
            ELSE upTo(k - 1) \o ", " \o list[k].title
    IN  "Combined Quiz: " \o upTo(Len(list))

\* the source and the position in it of entry m of the concatenation
RECURSIVE SourceOf(_, _, _)
SourceOf(list, k, m) ==
    IF m <= Len(heap[list[k].questions])
    THEN [quiz |-> k, at |-> m]
    ELSE SourceOf(list, k + 1, m - Len(heap[list[k].questions]))

RECURSIVE TotalQuestions(_, _)
TotalQuestions(list, k) ==
    IF k > Len(list) THEN 0
    ELSE Len(heap[list[k].questions]) + TotalQuestions(list, k + 1)

\* entry m of the expected pool: the original question plus source_quiz
ExpectedEntry(list, m) ==
    LET src  == SourceOf(list, 1, m)
        orig == heap[list[src.quiz].questions][src.at]
    IN  [t |-> orig.t, question |-> orig.question, answer |-> orig.answer,
         choices |-> orig.choices, type |-> orig.type,
         source_quiz |-> JStr(list[src.quiz].title)]

ExpectedPool(list) == [m \in 1..TotalQuestions(list, 1) |-> ExpectedEntry(list, m)]

\* same entries with the same multiplicities
IsPermutation(a, b) ==
    /\ Len(a) = Len(b)
    /\ \A x \in {a[i] : i \in 1..Len(a)} :
         Cardinality({i \in 1..Len(a) : a[i] = x})
            = Cardinality({i \in 1..Len(b) : b[i] = x})

\* C8: for a non-empty list the result's title is "Combined Quiz: " and
\* the source titles joined by ", " in input order; without shuffle its
\* questions are the tagged concatenation in source-then-within-source
\* order, with shuffle a permutation of that pool.
C8_CombinedQuiz ==
    (menu = "created" /\ combine_in.list # <<>>) =>
        /\ combine_out.title = ExpectedTitle(combine_in.list)
        /\ ~combine_in.randomize =>
              heap[combine_out.questions] = ExpectedPool(combine_in.list)
        /\ combine_in.randomize =>
              IsPermutation(heap[combine_out.questions], ExpectedPool(combine_in.list))

\* two definitions combined with shuffle, returned in another order than
\* the concatenation
C8_Witness ==
    /\ menu = "created"
    /\ Len(combine_in.list) = 2
    /\ combine_in.list[1] # combine_in.list[2]
    /\ combine_in.randomize
    /\ heap[combine_out.questions] # ExpectedPool(combine_in.list)

----------------------------------------------------------------------------
(* Properties of validate_quiz (SpecValidate). *)

\* rule 1: a mapping with the keys title and questions
Rule1(c) == c.t = "dict" /\ c.title.t # "missing" /\ c.questions.t # "missing"

\* rule 2: questions is a non-empty ordered sequence
Rule2(c) == c.questions.t = "list" /\ Len(c.questions.items) >= 1

\* rule 3: the element is a mapping with the keys question and answer
Rule3(e) == e.t = "dict" /\ e.question.t # "missing" /\ e.answer.t # "missing"

\* rule 4: the type tag, multiple-choice when absent
Rule4Type(e) == IF e.type.t = "missing" THEN "multiple_choice" ELSE e.type.s

\* rule 5: the answer of a true_false question is a boolean, not an integer
Rule5(e) == e.answer.t = "bool"

\* rule 6: choices is a sequence of at least 2, answer an integer (not a
\* boolean) with 1 <= answer <= len(choices)
Rule6(e) ==
    /\ e.choices.t = "list"
    /\ Len(e.choices.items) >= 2
    /\ e.answer.t = "int"
    /\ 1 <= e.answer.v
    /\ e.answer.v <= Len(e.choices.items)

Rules1to6(c) ==
    /\ Rule1(c)
    /\ Rule2(c)
    /\ \A i \in 1..Len(c.questions.items) :
         LET e == c.questions.items[i]
         IN  /\ Rule3(e)
             /\ IF Rule4Type(e) = "true_false" THEN Rule5(e) ELSE Rule6(e)

\* C5: validate_quiz returns true exactly when rules 1-6 hold, integer and
\* boolean being distinct types.
C5_ValidateIffRules ==
    menu = "validated" => (verdict = Rules1to6(candidate))

----------------------------------------------------------------------------
(* Properties of the menu flows (SpecMenu). *)

\* C4: building a session on a definition leaves the definition's questions
\* list in the loaded order, so a session built without shuffle runs the
\* questions in the loaded order.
C4_SourceUnmodified ==
    /\ \A i \in 1..Len(quiz_data) : heap[quiz_data[i].questions] = LoadedQuestions[i]
    /\ (menu = "quiz_one" /\ ~randomize) =>
          heap[questions] = LoadedQuestions[selected[1] + 1]

\* C7: every list handed to create_combined_quiz by take_combined_quiz has
\* at least 2 definitions.
C7_AtLeastTwoSources ==
    combine_out # Missing => Len(combine_in.list) >= 2

----------------------------------------------------------------------------
(* load_quizzes_from_folder, lines 198-248. *)

\* most directory entries of one folder
MaxFiles == 3

\* a directory entry: its name as stem and suffix, what open and json.load
\* make of it ("json": a document; "bad_json": json.load raises
\* JSONDecodeError; "unreadable": open raises OSError; "bad_bytes": the read
\* raises UnicodeDecodeError), and the document it holds
Entry(stem, suffix, kind, value) ==
    [stem |-> stem, suffix |-> suffix, kind |-> kind, value |-> value]

FileA == Entry("a", ".json", "json", QuizData(JStr("A"), JList(<<QA>>)))
FileB == Entry("b", ".json", "bad_json", Missing)
FileC == Entry("c", ".json", "json", QuizData(JStr("C"), JList(<<>>)))
FileD == Entry("d", ".txt", "json", QuizData(JStr("D"), JList(<<QB>>)))
FileE == Entry("e", ".json", "unreadable", Missing)
FileF == Entry("f", ".json", "json", QuizData(JStr("F"), JList(<<QB, QC>>)))
FileG == Entry("g", ".JSON", "json", QuizData(JStr("G"), JList(<<QC>>)))
FileH == Entry("h", ".json", "bad_bytes", Missing)
FileI == Entry("i", ".json", "json", JInt(1))

FilePool == {FileA, FileB, FileC, FileD, FileE, FileF, FileG, FileH, FileI}

\* os.listdir results: entries in enumeration order, no name twice
Directories ==
    { s \in SeqsUpTo(FilePool, MaxFiles) : \A i, j \in 1..Len(s) : s[i] = s[j] => i = j }

\* the folders the loader may be given
Folders ==
    { [exists |-> TRUE, creatable |-> TRUE, listable |-> TRUE, entries |-> d] :
          d \in Directories }
      \cup { [exists |-> TRUE, creatable |-> TRUE, listable |-> FALSE, entries |-> <<>>],
             [exists |-> FALSE, creatable |-> TRUE, listable |-> TRUE, entries |-> <<>>],
             [exists |-> FALSE, creatable |-> TRUE, listable |-> FALSE, entries |-> <<>>],
             [exists |-> FALSE, creatable |-> FALSE, listable |-> TRUE, entries |-> <<>>] }

\* f.endswith(".json")
EndsWithJson(f) == f.suffix = ".json"

\* [f for f in os.listdir(folder_path) if f.endswith(".json")]
JsonFiles(entries) == SelectSeq(entries, EndsWithJson)

\* the classes of the exceptions open and json.load raise here, each with
\* its base classes
ExceptionBases(exc) ==
    CASE exc = "JSONDecodeError" -> {"JSONDecodeError", "ValueError", "Exception"}
      [] exc = "UnicodeDecodeError" -> {"UnicodeDecodeError", "ValueError", "Exception"}
      [] exc = "OSError" -> {"OSError", "Exception"}
      [] OTHER -> {}

\* with open(...) as f: quiz_data = json.load(f): the exception raised, or "none"
LoadRaises(f) ==
    CASE f.kind = "bad_json" -> "JSONDecodeError"
      [] f.kind = "bad_bytes" -> "UnicodeDecodeError"
      [] f.kind = "unreadable" -> "OSError"
      [] OTHER -> "none"

Message(kind, f) == [kind |-> kind, file |-> f]

FileName(f) == <<f.stem, f.suffix>>

\* the except clauses of the per-file try, lines 238-243, in order; only
\* the first clause
FileHandlerJsonOnly(exc) ==
    IF "JSONDecodeError" \in ExceptionBases(exc) THEN "invalid_json"
    ELSE "propagate"

\* the except clauses of the per-file try, lines 238-243, in order
FileHandler(exc) ==
    IF "JSONDecodeError" \in ExceptionBases(exc) THEN "invalid_json"
    ELSE IF "Exception" \in ExceptionBases(exc) THEN "load_error"
    ELSE "propagate"

\* the except clause of the outer try, lines 245-246
FolderHandler(exc) ==
    IF "Exception" \in ExceptionBases(exc) THEN "access_error" ELSE "propagate"

\* one file of the for loop, lines 227-243: what is appended, what is
\* printed, and the exception that leaves the per-file try ("none" if none)
LoadOne(f) ==
    LET exc == LoadRaises(f)
    IN  IF exc = "none"
        THEN IF validate_quiz(f.value)
             THEN [loaded |-> <<f.value>>, said |-> <<>>, exc |-> "none"]
             ELSE [loaded |-> <<>>, said |-> <<Message("invalid_format", FileName(f))>>,
                   exc |-> "none"]
        ELSE IF FileHandler(exc) = "propagate"
             THEN [loaded |-> <<>>, said |-> <<>>, exc |-> exc]
             ELSE [loaded |-> <<>>, said |-> <<Message(FileHandler(exc), FileName(f))>>,
                   exc |-> "none"]

InitLoad ==
    /\ folder \in Folders
    /\ files = <<>>
    /\ file_idx = 0
    /\ quizzes = <<>>
    /\ warnings = <<>>
    /\ load_pc = "called"
    /\ quiz_data = <<>>
    /\ heap = [a \in Addrs |-> <<>>]
    /\ menu = "load"
    /\ selected = <<>>
    /\ randomize = FALSE
    /\ base = 0
    /\ SessionIdle
    /\ candidate = Missing
    /\ verdict = FALSE
    /\ combine_in = [list |-> <<>>, randomize |-> FALSE]
    /\ combine_out = Missing

\* lines 208-225: the folder is created if it is missing, listed and filtered
OpenFolder ==
    /\ load_pc = "called"
    /\ IF ~folder.exists /\ ~folder.creatable
       THEN /\ warnings' = <<Message("create_error", <<>>)>>
            /\ load_pc' = "returned"
            /\ UNCHANGED <<folder, files, file_idx>>
       ELSE LET made == IF folder.exists THEN <<>> ELSE <<Message("created", <<>>)>>
            IN  /\ folder' = [folder EXCEPT !.exists = TRUE]
                /\ IF ~folder.listable
                   THEN /\ warnings' = Append(made, Message(FolderHandler("OSError"), <<>>))
                        /\ load_pc' = IF FolderHandler("OSError") = "propagate"
                                      THEN "raised" ELSE "returned"
                        /\ UNCHANGED <<files, file_idx>>
                   ELSE /\ files' = JsonFiles(folder.entries)
                        /\ IF files' = <<>>
                           THEN /\ warnings' = Append(made, Message("no_files", <<>>))
                                /\ load_pc' = "returned"
                                /\ UNCHANGED file_idx
                           ELSE /\ warnings' = made
                                /\ load_pc' = "files"
                                /\ file_idx' = 1
    /\ UNCHANGED <<quizzes, heap, quiz_data, menu, selected, randomize, base>>
    /\ UNCHANGED <<sessionVars, candidate, verdict, combine_in, combine_out>>

\* lines 227-248: one turn of the for loop, and the return after the last
LoadFile ==
    /\ load_pc = "files"
    /\ LET one == LoadOne(files[file_idx])
       IN  /\ quizzes' = quizzes \o one.loaded
           /\ IF one.exc = "none"
              THEN /\ warnings' = warnings \o one.said
                   /\ file_idx' = file_idx + 1
                   /\ load_pc' = IF file_idx = Len(files) THEN "returned" ELSE "files"
              ELSE /\ file_idx' = file_idx
                   /\ IF FolderHandler(one.exc) = "propagate"
                      THEN /\ warnings' = warnings
                           /\ load_pc' = "raised"
                      ELSE /\ warnings' = Append(warnings, Message(FolderHandler(one.exc), <<>>))
                           /\ load_pc' = "returned"
    /\ UNCHANGED <<folder, files, heap, quiz_data, menu, selected, randomize, base>>
    /\ UNCHANGED <<sessionVars, candidate, verdict, combine_in, combine_out>>

NextLoad == OpenFolder \/ LoadFile

SpecLoad == InitLoad /\ [][NextLoad]_vars

----------------------------------------------------------------------------
(* Claims about load_quizzes_from_folder. *)

\* a directory entry that is a quiz: named *.json, parses, passes validate_quiz
IsQuizFile(f) == f.suffix = ".json" /\ f.kind = "json" /\ validate_quiz(f.value)

\* a *.json entry that is not a quiz
IsSkipped(f) == f.suffix = ".json" /\ ~IsQuizFile(f)

RECURSIVE QuizzesOf(_)
QuizzesOf(entries) ==
    IF entries = <<>> THEN <<>>
    ELSE IF IsQuizFile(Head(entries))
         THEN <<Head(entries).value>> \o QuizzesOf(Tail(entries))
         ELSE QuizzesOf(Tail(entries))

\* C11: load_quizzes_from_folder never raises; for a directory holding any
\* mix of valid quiz files, files with invalid JSON, JSON files failing
\* validation and non-.json files it returns exactly the quizzes that parse
\* and pass validate_quiz, in enumeration order, a bad file never stops the
\* files after it, and every skipped .json file has a diagnostic message.
C11_LoadsExactlyValid ==
    /\ load_pc # "raised"
    /\ (load_pc = "returned" /\ folder.listable) =>
          /\ quizzes = QuizzesOf(folder.entries)
          /\ \A i \in 1..Len(folder.entries) :
                IsSkipped(folder.entries[i]) =>
                   \E k \in 1..Len(warnings) :
                      /\ warnings[k].file = <<folder.entries[i].stem, folder.entries[i].suffix>>
                      /\ warnings[k].kind \in {"invalid_format", "invalid_json", "load_error"}

\* a returned load in which a quiz was loaded after a skipped .json file and
\* after a file of another suffix
C11_Witness ==
    /\ load_pc = "returned"
    /\ \E i, j, k \in 1..Len(folder.entries) :
          /\ i < k /\ j < k
          /\ IsSkipped(folder.entries[i])
          /\ folder.entries[j].suffix # ".json"
          /\ IsQuizFile(folder.entries[k])
          /\ quizzes = <<folder.entries[k].value>>

----------------------------------------------------------------------------
(* show_final_score on its own, lines 152-171. *)

\* most questions of a scored session
MaxTotal == 10

InitScore ==
    /\ total_questions \in 0..MaxTotal
    /\ correct_answers \in 0..total_questions
    /\ title = "T"
    /\ questions = 0
    /\ user_answers = <<>>
    /\ idx = 0
    /\ pc = "none"
    /\ depth = 0
    /\ shown = NoQuestion
    /\ is_correct = FALSE
    /\ result = Missing
    /\ printed = <<>>
    /\ quiz_data = <<>>
    /\ heap = [a \in Addrs |-> <<>>]
    /\ menu = "score"
    /\ selected = <<>>
    /\ randomize = FALSE
    /\ base = 0
    /\ PureIdle

\* self.show_final_score()
ShowFinalScore ==
    /\ menu = "score"
    /\ printed' = <<show_final_score(correct_answers, total_questions)>>
    /\ menu' = "scored"
    /\ UNCHANGED <<heap, quiz_data, selected, randomize, base, title, questions,
                   total_questions, correct_answers, user_answers, idx, pc, depth,
                   shown, is_correct, result>>
    /\ UNCHANGED pureVars

NextScore == ShowFinalScore

SpecScore == InitScore /\ [][NextScore]_vars

\* C12: with correctCount c and totalCount t (0 <= c <= t) the tier shown is
\* Outstanding iff t > 0 and 100c >= 90t, else Good iff t > 0 and
\* 100c >= 70t, else Not bad iff t > 0 and 100c >= 50t, else Review needed;
\* with t = 0 the tier is Review needed.
C12_TierAsStated ==
    \A k \in 1..Len(printed) :
       printed[k].kind = "score" =>
          LET c == printed[k].correct
              t == printed[k].total
          IN  /\ c = correct_answers /\ t = total_questions
              /\ (printed[k].text = "Outstanding") <=> (t > 0 /\ 100 * c >= 90 * t)
              /\ (printed[k].text = "Good") <=>
                    (~(t > 0 /\ 100 * c >= 90 * t) /\ t > 0 /\ 100 * c >= 70 * t)
              /\ (printed[k].text = "Not bad") <=>
                    (~(t > 0 /\ 100 * c >= 70 * t) /\ t > 0 /\ 100 * c >= 50 * t)
              /\ (printed[k].text = "Review needed") <=> ~(t > 0 /\ 100 * c >= 50 * t)
              /\ (t = 0 => printed[k].text = "Review needed")

\* a score of exactly 70 percent was shown as Good
C12_Witness ==
    /\ printed # <<>>
    /\ printed[1].kind = "score"
    /\ printed[1].total = 10 /\ printed[1].correct = 7
    /\ printed[1].text = "Good"

----------------------------------------------------------------------------
(* Claims about the verdicts and the order of a session. *)

\* the verdict the claim gives response u to question q
Verdict(q, u) ==
    IF q.type = JStr("true_false")
    THEN (u = 1) <=> (q.answer = JBool(TRUE))
    ELSE u = q.answer.v

\* the integer each line stands for, if it stands for one
Numeric == [line \in AnswerLines |-> ParseInt(line)]

\* the line is a numeric response in 1..optionCount of question q
NumericInRange(q, line) ==
    /\ Numeric[line].ok
    /\ 1 <= Numeric[line].v
    /\ Numeric[line].v <= (IF q.type = JStr("true_false") THEN 2 ELSE Len(q.choices.items))

\* C13: for an in-range numeric response u to a validated question,
\* present_question returns True iff u = answer (multiple choice) or iff
\* (u = 1) = answer (true/false), and the record it appends carries that
\* verdict, also after rejected responses to the same question; run_quiz
\* counts the answer iff that verdict is True.
C13_VerdictAsStated ==
    [][/\ \A line \in AnswerLines :
            (pc = "prompt" /\ NumericInRange(Current, line) /\ ReadLine(line))
               => LET u == Numeric[line].v
                  IN  /\ pc' = "pause"
                      /\ is_correct' = Verdict(Current, u)
                      /\ user_answers' =
                            Append(user_answers,
                                   [question       |-> Current.question,
                                    user_answer    |-> OptionText(Current, u),
                                    correct_answer |-> OptionText(Current, CorrectOption(Current)),
                                    correct        |-> Verdict(Current, u)])
       /\ (pc = "pause" /\ PressEnter)
            => /\ is_correct = user_answers[Len(user_answers)].correct
               /\ correct_answers' =
                     correct_answers + (IF is_correct THEN 1 ELSE 0)]_vars

\* a correct answer to the first question, given after one rejected response
C13_Witness ==
    /\ pc = "pause" /\ idx = 0 /\ depth = 2
    /\ is_correct
    /\ user_answers = <<[question       |-> QA.question,
                         user_answer    |-> "Paris",
                         correct_answer |-> "Paris",
                         correct        |-> TRUE]>>

\* C14: once the exit sentinel is accepted no further question is presented
\* and neither the final score nor the report is produced for that session;
\* the score and the report are produced only after every question has
\* received a valid answer, the score before the report.
C14_AbortOrder ==
    [][/\ \A line \in AnswerLines :
            (pc = "prompt" /\ ExitSentinel(line) /\ ReadLine(line))
               => pc' = "aborted" /\ shown' = shown /\ printed' = <<>>
       /\ pc = "aborted" => (pc' = "aborted" /\ shown' = shown /\ printed' = <<>>)
       /\ printed' # <<>> =>
            /\ pc' = "completed"
            /\ Len(user_answers') = total_questions'
            /\ total_questions' = Len(heap'[questions'])
            /\ \A i \in 1..Len(user_answers') :
                  user_answers'[i].question = heap'[questions'][i].question
            /\ Len(printed') = 2
            /\ printed'[1].kind = "score"
            /\ printed'[2].kind = "report"
       /\ pc' = "completed" => printed' # <<>>]_vars

\* the sentinel was accepted on the first of two questions: the second was
\* never presented and nothing was printed
C14_Witness ==
    /\ pc = "aborted" /\ total_questions = 2 /\ idx = 0
    /\ shown.number = 1
    /\ user_answers = <<>>
    /\ printed = <<>>

----------------------------------------------------------------------------
(* Spec with a user who keeps the session going: run_quiz is called, Enter  *)
(* is pressed at "Press Enter to continue...", and at a prompt that keeps   *)
(* coming back a valid answer or 'q' is typed at some time.                 *)

ValidInput == \E line \in AnswerLines : Answer(line) \/ Quit(line)

Fairness ==
    /\ WF_vars(RunQuiz)
    /\ WF_vars(PressEnter)
    /\ SF_vars(ValidInput)

SpecFair == Init /\ [][Next]_vars /\ Fairness

\* C15: given a valid answer or the exit sentinel at some time for each
\* presented question, run_quiz terminates completed or aborted (the
\* session is never at rest in another state); each valid answer advances
\* to the next question and at most totalCount distinct questions are
\* presented.
C15_Terminates ==
    /\ [](pc \in {"completed", "aborted"} \/ ENABLED Next)
    /\ [][/\ (\E line \in AnswerLines : Answer(line)) => (pc' = "pause" /\ idx' = idx)
          /\ (pc = "pause" /\ PressEnter) => idx' = idx + 1
          /\ idx' >= idx
          /\ (shown' # NoQuestion) => shown'.number <= total_questions'
          /\ (pc' = "prompt") => shown'.number = idx' + 1]_vars

----------------------------------------------------------------------------
(* Claims about the counters of a session. *)

\* the number of the first k records whose wasCorrect is true
CorrectAmong(ua, k) == Cardinality({ i \in 1..k : ua[i].correct })

\* the number of questions validly answered so far: those advanced past and
\* the one whose answer was just recorded
ValidlyAnswered == idx + (IF pc = "pause" THEN 1 ELSE 0)

\* C16: during one run of a freshly constructed session correctCount is the
\* number of records with wasCorrect = true among the questions already
\* advanced past, 0 <= correctCount <= len(answeredLog) <= totalCount, and
\* len(answeredLog) is the number of questions validly answered so far.
C16_Counters ==
    /\ idx <= Len(user_answers)
    /\ correct_answers = CorrectAmong(user_answers, idx)
    /\ 0 <= correct_answers
    /\ correct_answers <= Len(user_answers)
    /\ Len(user_answers) <= total_questions
    /\ Len(user_answers) = ValidlyAnswered

\* the second answer, a correct one, is recorded and not yet counted
C16_Witness ==
    /\ pc = "pause" /\ idx = 1
    /\ user_answers[1].correct /\ user_answers[2].correct
    /\ correct_answers = 1

----------------------------------------------------------------------------
(* Claims about what create_combined_quiz leaves alone (SpecCombine). *)

\* no question of the loaded definitions has a source_quiz key
NoSourceTagged(h) ==
    \A a \in 1..Len(quiz_data) :
       \A i \in 1..Len(h[a]) : h[a][i].source_quiz = Missing

\* C17: create_combined_quiz leaves the definitions it is given unchanged,
\* with shuffle and without: no source question gains a source_quiz key and
\* no source list changes length or order, so that combining the same
\* definitions again gives the same results.
C17_InputsUnchanged ==
    [][Combine =>
         /\ quiz_data' = quiz_data
         /\ combine_in'.list = combine_in.list
         /\ \A a \in 1..Len(quiz_data) : heap'[a] = heap[a]
         /\ NoSourceTagged(heap) => NoSourceTagged(heap')
         /\ PoolOrders(combine_in.list, heap', combine_in.randomize)
               = PoolOrders(combine_in.list, heap, combine_in.randomize)]_vars

\* one definition was combined with itself without shuffle: the pool holds
\* tagged copies, the definition holds the questions as loaded
C17_Witness ==
    /\ menu = "created"
    /\ Len(combine_in.list) = 2
    /\ combine_in.list[1] = combine_in.list[2]
    /\ ~combine_in.randomize
    /\ NoSourceTagged(heap)
    /\ \A i \in 1..Len(heap[CombinedAddr]) :
          heap[CombinedAddr][i].source_quiz = JStr(combine_in.list[1].title)
    /\ Len(heap[CombinedAddr]) = 2 * Len(heap[combine_in.list[1].questions])

====
